---- MODULE Spec2Model ----
(***************************************************************************)
(* BurgerQuest: the batch pass of process_logs.py (fetch, load, dedupe,    *)
(* group, download, classify, append, save) and the maintenance script     *)
(* migrate_participants.py, both working on the store file meals.json.     *)
(***************************************************************************)
EXTENDS Integers, Sequences, FiniteSets, TLC

VARIABLES
  updates,        \* the transport's pending updates, oldest first
  arrived,        \* number of updates the transport has produced so far
  nextId,         \* per chat: the message_id the next message of the chat gets
  file,           \* the store file: [kind, recs]
  pc,             \* position of the pipeline process
  batch,          \* updates, as returned by bot.get_updates()
  db,             \* main(): db
  processed_ids,  \* main(): processed_ids
  groups,         \* main(): groups, an insertion-ordered dict as a sequence
  gi,             \* index in groups of the group the second loop is at
  sender,         \* main(): sender of the group being processed
  combined_text,  \* main(): combined_text of the group being processed
  log,            \* what the pass printed or raised, one entry per group reached
  fileAtLoad,     \* the store file as the pass found it
  fileAtSave,     \* the store file as it was when the pass opened it for writing
  prevClean,      \* the previous pass logged every group of this same batch, and the store is as it left it
  prevFailed,     \* the events whose classifier call failed in the previous pass, if it reached its save
  mpc,            \* position of the migration process
  mdata,          \* migrate(): data
  updated,        \* migrate(): updated
  mfileAtRead,    \* the store file as migrate() found it
  migClean,       \* the previous migration ran to its end and the store has not been written since
  exif,           \* get_gps_location: what Image.open and _getexif give for the file
  coords          \* get_gps_location: the value returned

pipeVars == <<pc, batch, db, processed_ids, groups, gi, sender, combined_text, log, fileAtLoad, fileAtSave, prevClean, prevFailed>>
migVars == <<mpc, mdata, updated, mfileAtRead, migClean>>
gpsVars == <<exif, coords>>
envVars == <<updates, arrived, nextId>>
vars == <<updates, arrived, nextId, file, pc, batch, db, processed_ids, groups, gi, sender, combined_text, log, fileAtLoad, fileAtSave, prevClean, prevFailed, mpc, mdata, updated, mfileAtRead, migClean, exif, coords>>

----------------------------------------------------------------------------
(* Bounds *)

\* updates the transport produces in a run
MaxArrivals == 2

\* length of the batch of a single pass taken on its own
MaxBatch == 3

----------------------------------------------------------------------------
(* Configuration and the transport's data *)

TELEGRAM_CHAT_ID == "100"
SourceChat == 100
OtherChat == 200
Chats == {SourceChat, OtherChat}

None == "None"

\* msg.media_group_id: the transport's numeric strings
MediaGroupIds == {"1", "2"}

\* update.message is None for updates that carry no new message
NoMessage == [has_message |-> FALSE, message_id |-> 0, chat_id |-> 0, media_group_id |-> None, photo |-> <<>>, from_user |-> <<>>, date |-> 0, text |-> None, caption |-> None]

\* msg.photo: the size variants of one photo, the largest last
PhotoOf(n) == <<"t" \o ToString(n), "f" \o ToString(n)>>

\* msg.from_user: no user (<<>>) or one user with a first_name, a string of characters
Users == {<<[first_name |-> <<"A", "l", " ", "B">>]>>}

\* msg.text of a message without a photo, msg.caption of a photo that has one
TextNo(n) == "m" \o ToString(n)
CaptionNo(n) == "c" \o ToString(n)

Message(n, ids, c, g, p, u, t, cap) ==
  [has_message |-> TRUE, message_id |-> ids[c], chat_id |-> c, media_group_id |-> g, photo |-> p, from_user |-> u, date |-> n, text |-> t, caption |-> cap]

\* the n-th update: a message of the source chat, with or without a media group,
\* a text or a photo without caption; or a captioned photo of media group "1"
\* posted in another chat
NewMessages(n, ids) ==
  { Message(n, ids, SourceChat, g, <<>>, u, TextNo(n), None) : g \in MediaGroupIds \cup {None}, u \in Users }
  \cup { Message(n, ids, SourceChat, g, PhotoOf(n), u, None, None) : g \in MediaGroupIds \cup {None}, u \in Users }
  \cup { Message(n, ids, OtherChat, "1", PhotoOf(n), u, None, CaptionNo(n)) : u \in Users }

----------------------------------------------------------------------------
(* The store file *)

MissingFile == [kind |-> "missing", recs |-> <<>>]
ValidFile(recs) == [kind |-> "valid", recs |-> recs]
\* opened for writing and not yet closed: empty, or a document cut off before its
\* end; json.load raises on it whatever it holds, and no record can be read from it
PartialFile == [kind |-> "partial", recs |-> <<>>]

----------------------------------------------------------------------------
(* Loading, filtering and grouping: main(), lines 73-98 *)

\* a load that lets the JSON error of a cut-off file escape
LoadDbStrict(f) ==
  IF f.kind = "valid" THEN [raised |-> FALSE, db |-> f.recs]
  ELSE [raised |-> f.kind = "partial", db |-> <<>>]

\* a load that starts every pass from an empty store
LoadDbFresh(f) == [raised |-> FALSE, db |-> <<>>]

\* a load that keeps of each record only the fields the pipeline itself writes
LoadDbKnownFields(f) ==
  IF f.kind = "valid"
  THEN [raised |-> FALSE,
        db |-> [i \in 1..Len(f.recs) |-> [k \in DOMAIN f.recs[i] \ {"participants"} |-> f.recs[i][k]]]]
  ELSE [raised |-> FALSE, db |-> <<>>]

\* json.load inside try / bare except; a missing file takes the else branch
LoadDb(f) ==
  IF f.kind = "valid" THEN [raised |-> FALSE, db |-> f.recs]
  ELSE [raised |-> FALSE, db |-> <<>>]

\* {entry.get('msg_id') for entry in db}
\* (the None that entries without msg_id contribute equals no message_id and is left out)
ProcessedIds(d) ==
  { d[i].msg_id : i \in { j \in 1..Len(d) : "msg_id" \in DOMAIN d[j] } }

\* a filter that forgets the dedup set
SurvivesNoDedup(msg, ids) ==
  /\ msg.has_message
  /\ ToString(msg.chat_id) = TELEGRAM_CHAT_ID

\* a filter that forgets the chat
SurvivesAnyChat(msg, ids) ==
  /\ msg.has_message
  /\ msg.message_id \notin ids

\* the negation of the `continue` condition of the first loop
Survives(msg, ids) ==
  /\ msg.has_message
  /\ ToString(msg.chat_id) = TELEGRAM_CHAT_ID
  /\ msg.message_id \notin ids

\* a key for ungrouped messages without the "single_" prefix
GroupKeyNoPrefix(msg) ==
  IF msg.media_group_id # None THEN msg.media_group_id
  ELSE ToString(msg.message_id)

\* media_group_id, or single_<message_id> for a message without one
GroupKey(msg) ==
  IF msg.media_group_id # None THEN msg.media_group_id
  ELSE "single_" \o ToString(msg.message_id)

KeyIndex(gs, key) ==
  IF \E i \in 1..Len(gs) : gs[i].key = key
  THEN CHOOSE i \in 1..Len(gs) : gs[i].key = key
  ELSE 0

\* a grouping that puts each new member in front of the earlier ones
AddToGroupInFront(gs, msg) ==
  LET key == GroupKey(msg)
      at == KeyIndex(gs, key)
  IN IF at = 0 THEN Append(gs, [key |-> key, msgs |-> <<msg>>, paths |-> <<>>])
     ELSE [gs EXCEPT ![at].msgs = <<msg>> \o @]

\* if group_id not in groups: groups[group_id] = {...}; groups[group_id]["msgs"].append(msg)
AddToGroup(gs, msg) ==
  LET key == GroupKey(msg)
      at == KeyIndex(gs, key)
  IN IF at = 0 THEN Append(gs, [key |-> key, msgs |-> <<msg>>, paths |-> <<>>])
     ELSE [gs EXCEPT ![at].msgs = Append(@, msg)]

RECURSIVE GroupFrom(_, _, _, _)
GroupFrom(b, i, ids, gs) ==
  IF i > Len(b) THEN gs
  ELSE GroupFrom(b, i + 1, ids, IF Survives(b[i], ids) THEN AddToGroup(gs, b[i]) ELSE gs)

\* the groups in the reverse of their order of insertion
BuildGroupsLastFirst(b, ids) ==
  LET gs == GroupFrom(b, 1, ids, <<>>)
  IN [i \in 1..Len(gs) |-> gs[Len(gs) + 1 - i]]

\* groups = {} filled by the first loop; a dict iterates in insertion order
BuildGroups(b, ids) == GroupFrom(b, 1, ids, <<>>)

----------------------------------------------------------------------------
(* Per group: sender, downloads, classifier, record: main(), lines 100-150 *)

UnknownHunter == <<"U", "n", "k", "n", "o", "w", "n", " ", "H", "u", "n", "t", "e", "r">>

\* str.split(): the maximal runs of non-whitespace characters
RECURSIVE SplitFrom(_, _, _, _)
SplitFrom(s, i, cur, out) ==
  IF i > Len(s) THEN (IF cur = <<>> THEN out ELSE Append(out, cur))
  ELSE IF s[i] = " " THEN SplitFrom(s, i + 1, <<>>, IF cur = <<>> THEN out ELSE Append(out, cur))
  ELSE SplitFrom(s, i + 1, Append(cur, s[i]), out)

\* the whole string as its only token
Unsplit(s) == <<s>>

Split(s) == SplitFrom(s, 1, <<>>, <<>>)

FullName(msg) == IF msg.from_user # <<>> THEN msg.from_user[1].first_name ELSE UnknownHunter

\* Python truth of an optional string: None and "" are false
Truthy(x) == x # None /\ x # ""

\* the text alone, captions left out
TextOnly(m) == m.text

\* m.text or m.caption
TextOrCaption(m) == IF Truthy(m.text) THEN m.text ELSE m.caption

\* " ".join(filter(None, parts))
RECURSIVE JoinFrom(_, _, _, _)
JoinFrom(msgs, i, acc, any) ==
  IF i > Len(msgs) THEN acc
  ELSE LET part == TextOrCaption(msgs[i])
       IN IF ~Truthy(part) THEN JoinFrom(msgs, i + 1, acc, any)
          ELSE JoinFrom(msgs, i + 1, IF any THEN acc \o " " \o part ELSE part, TRUE)

\* ... or "Food photo"
CombinedText(msgs) ==
  LET joined == JoinFrom(msgs, 1, "", FALSE)
  IN IF Truthy(joined) THEN joined ELSE "Food photo"

PathOf(file_unique_id) == "assets/images/" \o file_unique_id \o ".jpg"

\* the first (smallest) variant instead of the last
PickVariantFirst(photo) == photo[1]

\* photo = m.photo[-1]
PickVariant(photo) == photo[Len(photo)]

\* for m in data["msgs"]: if m.photo: ... data["paths"].append(path)
RECURSIVE DownloadFrom(_, _, _)
DownloadFrom(msgs, i, paths) ==
  IF i > Len(msgs) THEN paths
  ELSE DownloadFrom(msgs, i + 1,
         IF msgs[i].photo # <<>> THEN Append(paths, PathOf(PickVariant(msgs[i].photo))) ELSE paths)

DownloadAll(msgs) == DownloadFrom(msgs, 1, <<>>)

\* response.text as the classifier returns it
NotJson == [json |-> "garbage", val |-> <<>>]
JsonArray == [json |-> "array", val |-> <<>>]
JsonObject(o) == [json |-> "object", val |-> o]
MealObject == [name |-> "Patty Shack", rating |-> 8]
NamelessObject == [rating |-> 8]

\* generate_content either raises or returns a response
Raises == [raises |-> TRUE, text |-> NotJson]
Returns(t) == [raises |-> FALSE, text |-> t]
ClassifierResults == {Raises, Returns(NotJson), Returns(JsonArray), Returns(JsonObject(MealObject)), Returns(JsonObject(NamelessObject))}

ResultKind(r) ==
  IF r.raises THEN "raise"
  ELSE IF r.text.json # "object" THEN r.text.json
  ELSE IF "name" \in DOMAIN r.text.val THEN "meal" ELSE "nameless"

\* json.loads
JsonLoads(t) == [raised |-> t.json = "garbage", val |-> t.val]

\* get_gps_location never raises: it returns None (written <<>>) or a coordinate pair
NoGps == <<>>
NotReturned == [returned |-> FALSE, value |-> NoGps]
Returned(v) == [returned |-> TRUE, value |-> v]

\* what the image file gives: Image.open raises, _getexif() is empty, or the EXIF
\* block with the sub-tags of GPSInfo decoded by GPSTAGS (a dict)
Unreadable == [opens |-> FALSE, has_exif |-> FALSE, gps_info |-> <<>>]
NoExif == [opens |-> TRUE, has_exif |-> FALSE, gps_info |-> <<>>]
Exif(gps_info) == [opens |-> TRUE, has_exif |-> TRUE, gps_info |-> gps_info]

\* a GPSInfo block always has its version tag; a coordinate is a triple of degrees,
\* minutes and seconds (<<>> here: the tag is not there), a reference a letter (None
\* here: the tag is not there)
GpsInfo(lat, latRef, lng, lngRef) ==
  (IF lat = <<>> THEN <<>> ELSE "GPSLatitude" :> lat)
  @@ (IF latRef = None THEN <<>> ELSE "GPSLatitudeRef" :> latRef)
  @@ (IF lng = <<>> THEN <<>> ELSE "GPSLongitude" :> lng)
  @@ (IF lngRef = None THEN <<>> ELSE "GPSLongitudeRef" :> lngRef)
  @@ ("GPSVersionID" :> "2.3")

\* dict.get(key)
Get(d, key) == IF key \in DOMAIN d THEN d[key] ELSE None

\* to_deg: d + m / 60.0 + s / 3600.0, counted in arc-seconds (3600 to the degree) so
\* that the value stays an integer
to_deg(value) == 3600 * value[1] + 60 * value[2] + value[3]

\* to_deg raises (IndexError) on a value of fewer than three components
ToDegRaises(value) == Len(value) < 3

\* a sign rule that negates on the northern and eastern references
GpsOfNegatesNE(x) ==
  IF ~x.opens \/ ~x.has_exif \/ "GPSLatitude" \notin DOMAIN x.gps_info THEN NoGps
  ELSE IF ToDegRaises(x.gps_info["GPSLatitude"]) \/ "GPSLongitude" \notin DOMAIN x.gps_info THEN NoGps
  ELSE IF ToDegRaises(x.gps_info["GPSLongitude"]) THEN NoGps
  ELSE [lat |-> IF Get(x.gps_info, "GPSLatitudeRef") = "N" THEN -to_deg(x.gps_info["GPSLatitude"]) ELSE to_deg(x.gps_info["GPSLatitude"]),
        lng |-> IF Get(x.gps_info, "GPSLongitudeRef") = "E" THEN -to_deg(x.gps_info["GPSLongitude"]) ELSE to_deg(x.gps_info["GPSLongitude"])]

\* the body of get_gps_location on what the file gives; every exception is caught
\* and turned into None
GpsOf(x) ==
  IF ~x.opens THEN NoGps
  ELSE IF ~x.has_exif THEN NoGps
  ELSE LET gps_info == x.gps_info
       IN IF "GPSLatitude" \notin DOMAIN gps_info THEN NoGps
          ELSE IF ToDegRaises(gps_info["GPSLatitude"]) THEN NoGps
          ELSE IF "GPSLongitude" \notin DOMAIN gps_info THEN NoGps
          ELSE IF ToDegRaises(gps_info["GPSLongitude"]) THEN NoGps
          ELSE LET lat == to_deg(gps_info["GPSLatitude"])
                   lng == to_deg(gps_info["GPSLongitude"])
               IN [lat |-> IF Get(gps_info, "GPSLatitudeRef") = "S" THEN -lat ELSE lat,
                   lng |-> IF Get(gps_info, "GPSLongitudeRef") = "W" THEN -lng ELSE lng]

\* the downloaded files: the photos of odd arrivals were taken in Sydney and carry
\* their position, the others carry no EXIF block
GeoTagged == { PathOf(PhotoOf(n)[2]) : n \in { k \in 1..(MaxArrivals + MaxBatch) : k % 2 = 1 } }
Sydney == GpsInfo(<<33, 52, 4>>, "S", <<151, 12, 26>>, "E")
ExifAt(path) == IF path \in GeoTagged THEN Exif(Sydney) ELSE NoExif

get_gps_location(path) == GpsOf(ExifAt(path))

\* date.isoformat() of a message sent at second n of the epoch
IsoFormat(n) == "1970-01-01T00:00:0" \o ToString(n) \o "+00:00"

\* cover image and position taken from the last downloaded path
ProvenanceLastPath(main_msg, snd, paths) ==
  [sender |-> snd, msg_id |-> main_msg.message_id, timestamp |-> IsoFormat(main_msg.date),
   image_paths |-> paths, image_path |-> IF paths # <<>> THEN paths[Len(paths)] ELSE None,
   gps |-> IF paths # <<>> THEN get_gps_location(paths[Len(paths)]) ELSE NoGps]

\* entry['sender'] = ... entry['gps'] = ...: item assignment overrides the response's keys
Provenance(main_msg, snd, paths) ==
  [sender |-> snd, msg_id |-> main_msg.message_id, timestamp |-> IsoFormat(main_msg.date),
   image_paths |-> paths, image_path |-> IF paths # <<>> THEN paths[1] ELSE None,
   gps |-> IF paths # <<>> THEN get_gps_location(paths[1]) ELSE NoGps]

\* a try block that appends the provenance before it calls the classifier
TryBlockAppendFirst(d, main_msg, snd, paths, result) ==
  IF result.raises \/ result.text.json # "object"
  THEN [db |-> Append(d, Provenance(main_msg, snd, paths)), reported |-> "error"]
  ELSE LET entry == Provenance(main_msg, snd, paths) @@ result.text.val
       IN [db |-> Append(d, entry), reported |-> IF "name" \in DOMAIN entry THEN "success" ELSE "error"]

\* a try block in which the keys of the response win over the pipeline's values
TryBlockResponseWins(d, main_msg, snd, paths, result) ==
  IF result.raises \/ result.text.json # "object" THEN [db |-> d, reported |-> "error"]
  ELSE LET entry == result.text.val @@ Provenance(main_msg, snd, paths)
       IN [db |-> Append(d, entry), reported |-> IF "name" \in DOMAIN entry THEN "success" ELSE "error"]

\* the try block of one group: the db after it and the branch that printed
TryBlock(d, main_msg, snd, paths, result) ==
  IF result.raises THEN [db |-> d, reported |-> "error"]
  ELSE LET parsed == JsonLoads(result.text)
       IN IF parsed.raised THEN [db |-> d, reported |-> "error"]
          ELSE IF result.text.json # "object" THEN [db |-> d, reported |-> "error"]
          ELSE LET entry == Provenance(main_msg, snd, paths) @@ parsed.val
               IN IF "name" \in DOMAIN entry
                  THEN [db |-> Append(d, entry), reported |-> "success"]
                  ELSE [db |-> Append(d, entry), reported |-> "error"]

----------------------------------------------------------------------------
(* The transport: messages arrive and old updates expire *)

Stopped == {"done", "crashed", "killed"}
MStopped == {"notfound", "crashed", "noop", "done", "killed"}

\* A pass reads the pending updates once, in Fetch, so an arrival during a pass
\* is an arrival after it; arrivals are taken between passes.
ArriveOf(msgs) ==
  /\ pc = "idle"
  /\ arrived < MaxArrivals
  /\ \E m \in msgs :
       /\ updates' = Append(updates, m)
       /\ nextId' = IF m.has_message THEN [nextId EXCEPT ![m.chat_id] = @ + 1] ELSE nextId
  /\ arrived' = arrived + 1
  /\ prevClean' = FALSE
  /\ UNCHANGED <<file, pc, batch, db, processed_ids, groups, gi, sender, combined_text, log, fileAtLoad, fileAtSave, prevFailed, migVars, gpsVars>>

Arrive == ArriveOf(NewMessages(arrived + 1, nextId) \cup {NoMessage})

Expire ==
  /\ pc = "idle"
  /\ updates # <<>>
  /\ updates' = Tail(updates)
  /\ prevClean' = FALSE
  /\ UNCHANGED <<arrived, nextId, file, pc, batch, db, processed_ids, groups, gi, sender, combined_text, log, fileAtLoad, fileAtSave, prevFailed, migVars, gpsVars>>

----------------------------------------------------------------------------
(* The pipeline pass: main() *)

AllLogged(l) == \A i \in 1..Len(l) : l[i].reported = "success"

\* updates = await bot.get_updates()
Fetch ==
  /\ pc = "idle"
  /\ batch' = updates
  /\ pc' = "fetched"
  /\ UNCHANGED <<envVars, file, db, processed_ids, groups, gi, sender, combined_text, log, fileAtLoad, fileAtSave, prevClean, prevFailed, migVars, gpsVars>>

\* lines 73-98: load the store, build processed_ids, group the batch
Load ==
  /\ pc = "fetched"
  /\ LET r == LoadDb(file)
         ids == ProcessedIds(r.db)
         gs == BuildGroups(batch, ids)
     IN IF r.raised
        THEN /\ pc' = "crashed"
             /\ UNCHANGED <<db, processed_ids, groups>>
        ELSE /\ db' = r.db
             /\ processed_ids' = ids
             /\ groups' = gs
             /\ pc' = IF gs = <<>> THEN "save" ELSE "download"
  /\ fileAtLoad' = file
  /\ UNCHANGED <<envVars, file, batch, gi, sender, combined_text, log, fileAtSave, prevClean, prevFailed, migVars, gpsVars>>

\* one entry per group reached: what was handed to the classifier (contents) and
\* what came of it
LogEntry(g, kind, reported, paths, text) ==
  [key |-> g.key, msg_id |-> g.msgs[1].message_id, result |-> kind, reported |-> reported,
   paths |-> paths, contents |-> [text |-> text, images |-> paths]]

\* lines 101-122: sender, combined_text, downloads and Image.open, all outside the try block
Download ==
  /\ pc = "download"
  /\ LET g == groups[gi]
         names == Split(FullName(g.msgs[1]))
         paths == DownloadAll(g.msgs)
     IN \E ok \in BOOLEAN :
          /\ (~ok) => paths # <<>>
          /\ IF names = <<>> \/ ~ok
             THEN /\ pc' = "crashed"
                  /\ log' = Append(log, LogEntry(g, "download", "uncaught", <<>>, ""))
                  /\ UNCHANGED <<groups, sender, combined_text>>
             ELSE /\ pc' = "classify"
                  /\ sender' = names[1]
                  /\ combined_text' = CombinedText(g.msgs)
                  /\ groups' = [groups EXCEPT ![gi].paths = paths]
                  /\ UNCHANGED log
  /\ UNCHANGED <<envVars, file, batch, db, processed_ids, gi, fileAtLoad, fileAtSave, prevClean, prevFailed, migVars, gpsVars>>

\* lines 124-150: the try block, then the next group or the save
ClassifyWith(results) ==
  /\ pc = "classify"
  /\ LET g == groups[gi]
     IN \E result \in results :
          LET t == TryBlock(db, g.msgs[1], sender, g.paths, result)
          IN /\ db' = t.db
             /\ log' = Append(log, LogEntry(g, ResultKind(result), t.reported, g.paths, combined_text))
  /\ gi' = gi + 1
  /\ pc' = IF gi + 1 > Len(groups) THEN "save" ELSE "download"
  /\ UNCHANGED <<envVars, file, batch, processed_ids, groups, sender, combined_text, fileAtLoad, fileAtSave, prevClean, prevFailed, migVars, gpsVars>>

Classify == ClassifyWith(ClassifierResults)

\* open(db_path, 'w') truncates the file
SaveOpen ==
  /\ pc = "save"
  /\ file' = PartialFile
  /\ pc' = "dump"
  /\ fileAtSave' = file
  /\ migClean' = FALSE
  /\ UNCHANGED <<envVars, batch, db, processed_ids, groups, gi, sender, combined_text, log, fileAtLoad, prevClean, prevFailed, mpc, mdata, updated, mfileAtRead, gpsVars>>

\* json.dump(db, f, indent=2) writes the whole document and the with block closes the file
SaveDump ==
  /\ pc = "dump"
  /\ file' = ValidFile(db)
  /\ pc' = "done"
  /\ UNCHANGED <<envVars, batch, db, processed_ids, groups, gi, sender, combined_text, log, fileAtLoad, fileAtSave, prevClean, prevFailed, migVars, gpsVars>>

\* the process is interrupted (killed) at any point of the pass and its memory is
\* gone (what it had found on disk is remembered); a pass killed between open and
\* close leaves the file as json.dump had got it: cut off
Kill ==
  /\ pc \notin Stopped \cup {"idle"}
  /\ pc' = "killed"
  /\ batch' = <<>> /\ db' = <<>> /\ processed_ids' = {} /\ groups' = <<>> /\ gi' = 1
  /\ sender' = <<>> /\ combined_text' = "" /\ log' = <<>>
  /\ fileAtLoad' = IF pc = "fetched" THEN file ELSE fileAtLoad
  /\ fileAtSave' = MissingFile
  /\ UNCHANGED file
  /\ UNCHANGED <<envVars, prevClean, prevFailed, migVars, gpsVars>>

\* the events of a pass that reached its save for which generate_content raised or
\* returned no JSON object: group key, representative and member message ids
FailedEvents ==
  IF pc # "done" THEN {}
  ELSE { [key |-> groups[i].key, msg_id |-> groups[i].msgs[1].message_id,
          members |-> { groups[i].msgs[k].message_id : k \in 1..Len(groups[i].msgs) }] :
         i \in { j \in 1..Len(log) : log[j].result \in {"raise", "garbage", "array"} } }

\* the process is gone and its memory with it; what the pass did is remembered
\* for the next one (prevClean, prevFailed)
ExitWith(failed) ==
  /\ pc \in Stopped
  /\ prevClean' = (pc = "done" /\ AllLogged(log))
  /\ prevFailed' = failed
  /\ pc' = "idle"
  /\ batch' = <<>> /\ db' = <<>> /\ processed_ids' = {} /\ groups' = <<>> /\ gi' = 1
  /\ sender' = <<>> /\ combined_text' = "" /\ log' = <<>>
  /\ fileAtLoad' = MissingFile /\ fileAtSave' = MissingFile
  /\ UNCHANGED <<envVars, file, migVars, gpsVars>>

Exit == ExitWith({})

\* the same step, keeping the pass's failed events for the pass that follows
ExitNoting == ExitWith(FailedEvents)

----------------------------------------------------------------------------
(* The migration: migrate() of migrate_participants.py *)

\* if 'participants' not in entry: entry['participants'] = [entry['sender']]
MigrateEntry(e) ==
  IF "participants" \in DOMAIN e THEN e
  ELSE ("participants" :> <<e.sender>>) @@ e

MigrateAll(data) == [i \in 1..Len(data) |-> MigrateEntry(data[i])]

\* a count of the records visited instead of the records changed
CountVisited(data) == Len(data)

\* updated += 1 inside the if
CountMissing(data) == Cardinality({ i \in 1..Len(data) : "participants" \notin DOMAIN data[i] })

\* lines 13-31: existence check, json.load (uncaught when it fails), the loop, the branch
MigRead ==
  /\ mpc = "idle"
  /\ mfileAtRead' = file
  /\ IF file.kind = "missing"
     THEN mpc' = "notfound" /\ mdata' = <<>> /\ updated' = 0
     ELSE IF file.kind = "partial"
     THEN mpc' = "crashed" /\ mdata' = <<>> /\ updated' = 0
     ELSE /\ mdata' = MigrateAll(file.recs)
          /\ updated' = CountMissing(file.recs)
          /\ mpc' = IF CountMissing(file.recs) > 0 THEN "write" ELSE "noop"
  /\ UNCHANGED <<envVars, file, pipeVars, migClean, gpsVars>>

\* open(DB_PATH, 'w', encoding='utf-8') truncates the file
MigOpen ==
  /\ mpc = "write"
  /\ file' = PartialFile
  /\ mpc' = "dump"
  /\ prevClean' = FALSE
  /\ UNCHANGED <<envVars, pc, batch, db, processed_ids, groups, gi, sender, combined_text, log, fileAtLoad, fileAtSave, prevFailed, mdata, updated, mfileAtRead, migClean, gpsVars>>

\* json.dump(data, f, indent=2, ensure_ascii=False), then the file is closed
MigDump ==
  /\ mpc = "dump"
  /\ file' = ValidFile(mdata)
  /\ mpc' = "done"
  /\ UNCHANGED <<envVars, pipeVars, mdata, updated, mfileAtRead, migClean, gpsVars>>

\* the migration is interrupted before or during its write-back
MigKill ==
  /\ mpc \in {"write", "dump"}
  /\ mpc' = "killed"
  /\ UNCHANGED <<envVars, file, pipeVars, mdata, updated, mfileAtRead, migClean, gpsVars>>

\* the process is gone; whether it ran to its end is remembered for the next run
MigExit ==
  /\ mpc \in MStopped
  /\ migClean' = (mpc \in {"done", "noop"})
  /\ mpc' = "idle" /\ mdata' = <<>> /\ updated' = 0 /\ mfileAtRead' = MissingFile
  /\ UNCHANGED <<envVars, file, pipeVars, gpsVars>>

----------------------------------------------------------------------------
(* The system *)

\* nothing has run yet: no update, no store file, no process
InitStore ==
  /\ updates = <<>> /\ arrived = 0 /\ nextId = [c \in Chats |-> 1]
  /\ file = MissingFile
  /\ pc = "idle" /\ batch = <<>> /\ db = <<>> /\ processed_ids = {} /\ groups = <<>> /\ gi = 1
  /\ sender = <<>> /\ combined_text = "" /\ log = <<>>
  /\ fileAtLoad = MissingFile /\ fileAtSave = MissingFile
  /\ prevClean = FALSE /\ prevFailed = {}
  /\ mpc = "idle" /\ mdata = <<>> /\ updated = 0 /\ mfileAtRead = MissingFile /\ migClean = FALSE
  /\ coords = NotReturned

Init == InitStore /\ exif = NoExif

\* the pipeline alone: passes over the updates as they arrive and expire
Next ==
  \/ Arrive
  \/ Expire
  \/ Fetch
  \/ Load
  \/ Download
  \/ Classify
  \/ SaveOpen
  \/ SaveDump
  \/ Kill
  \/ Exit

Spec == Init /\ [][Next]_vars

\* the pipeline and the migration, one process at a time (external scheduling
\* serializes the writers of the store file)
NextSerial ==
  \/ (mpc = "idle" /\ Next)
  \/ (pc = "idle" /\ MigRead)
  \/ MigOpen
  \/ MigDump
  \/ MigKill
  \/ MigExit

SpecSerial == Init /\ [][NextSerial]_vars

\* passes that are not interrupted, each knowing which events the pass before it
\* failed on
NextRetry ==
  \/ Arrive
  \/ Expire
  \/ Fetch
  \/ Load
  \/ Download
  \/ Classify
  \/ SaveOpen
  \/ SaveDump
  \/ ExitNoting

SpecRetry == Init /\ [][NextRetry]_vars

\* the n-th update of the runs below: a text message of the source chat
TextMessages(n, ids) == { Message(n, ids, SourceChat, None, <<>>, u, TextNo(n), None) : u \in Users }

\* the pipeline and the migration as two processes that nothing keeps apart: each
\* step of one may fall between any two steps of the other; neither is interrupted,
\* the classifier raises or gives a meal
NextConcurrent ==
  \/ ArriveOf(TextMessages(arrived + 1, nextId))
  \/ Fetch
  \/ Load
  \/ Download
  \/ ClassifyWith({Raises, Returns(JsonObject(MealObject))})
  \/ SaveOpen
  \/ SaveDump
  \/ Exit
  \/ MigRead
  \/ MigOpen
  \/ MigDump
  \/ MigExit

SpecConcurrent == Init /\ [][NextConcurrent]_vars

----------------------------------------------------------------------------
(* One pass over any batch: main() from the load on, for batches of every shape *)

\* msg.from_user of the messages below: no user, or a first_name with leading and
\* repeated blanks
NoUser == <<>>
SpacedUser == <<[first_name |-> <<" ", "Z", "e", "d", " ", " ", "Y">>]>>

\* the n-th message of a batch. In media group "1" of the source chat: a text, a
\* text of a sender with a spaced name, a photo without caption of a sender without
\* user, a captioned photo, a message whose text and caption are both empty; a text
\* outside any media group; or a captioned photo of media group "1" posted in
\* another chat
BatchMessages(n, ids) ==
  LET al == CHOOSE u \in Users : TRUE
  IN { Message(n, ids, SourceChat, "1", <<>>, al, TextNo(n), None),
       Message(n, ids, SourceChat, "1", <<>>, SpacedUser, TextNo(n), None),
       Message(n, ids, SourceChat, "1", PhotoOf(n), NoUser, None, None),
       Message(n, ids, SourceChat, "1", PhotoOf(n), al, None, CaptionNo(n)),
       Message(n, ids, SourceChat, "1", <<>>, al, "", ""),
       Message(n, ids, SourceChat, None, <<>>, al, TextNo(n), None),
       Message(n, ids, OtherChat, "1", PhotoOf(n), al, None, CaptionNo(n)) }

\* the message_id the next message of each chat gets after the batch b
IdsAfter(b) == [c \in Chats |-> 1 + Cardinality({ i \in 1..Len(b) : b[i].chat_id = c })]

RECURSIVE BatchesOfLen(_)
BatchesOfLen(n) ==
  IF n = 0 THEN {<<>>}
  ELSE UNION { { Append(b, m) : m \in BatchMessages(n, IdsAfter(b)) } : b \in BatchesOfLen(n - 1) }

Batches == UNION { BatchesOfLen(n) : n \in 0..MaxBatch }

\* a response whose JSON object carries the names of the provenance fields too
ClashObject ==
  [name |-> "Eve's Diner", rating |-> 8, sender |-> <<"E", "v", "e">>, msg_id |-> 1,
   timestamp |-> "2000-01-01T00:00:00+00:00", image_paths |-> <<"assets/images/x.jpg">>,
   image_path |-> "assets/images/x.jpg", gps |-> [lat |-> 0, lng |-> 0]]

PassResults == {Raises, Returns(JsonObject(MealObject)), Returns(JsonObject(ClashObject))}

\* the record an earlier pass appended for the message m when it was alone in its batch
RecordOf(m) ==
  TryBlock(<<>>, m, Split(FullName(m))[1], DownloadAll(<<m>>), Returns(JsonObject(MealObject))).db[1]

\* the updates have been fetched; the store file is missing, or holds the record of
\* the first message, recorded by an earlier pass
InitPass ==
  /\ \E b \in Batches :
       /\ updates = b /\ batch = b /\ arrived = Len(b) /\ nextId = IdsAfter(b)
       /\ \E stored \in BOOLEAN :
            /\ stored => (b # <<>> /\ b[1].chat_id = SourceChat /\ Split(FullName(b[1])) # <<>>)
            /\ file = IF stored THEN ValidFile(<<RecordOf(b[1])>>) ELSE MissingFile
  /\ pc = "fetched" /\ db = <<>> /\ processed_ids = {} /\ groups = <<>> /\ gi = 1
  /\ sender = <<>> /\ combined_text = "" /\ log = <<>>
  /\ fileAtLoad = MissingFile /\ fileAtSave = MissingFile
  /\ prevClean = FALSE /\ prevFailed = {}
  /\ mpc = "idle" /\ mdata = <<>> /\ updated = 0 /\ mfileAtRead = MissingFile /\ migClean = FALSE
  /\ exif = NoExif /\ coords = NotReturned

NextPass ==
  \/ Load
  \/ Download
  \/ ClassifyWith(PassResults)
  \/ SaveOpen
  \/ SaveDump

SpecPass == InitPass /\ [][NextPass]_vars

----------------------------------------------------------------------------
(* get_gps_location on any image file *)

\* coordinate values as EXIF holds them: degrees, minutes, seconds; one of them cut short
Triples == {<<0, 0, 0>>, <<33, 52, 4>>, <<151, 12, 26>>, <<48, 8>>}

\* the files: unreadable, without EXIF block, or with a GPSInfo block in which each of
\* the four tags is there or not, the references with any letter
ExifInputs ==
  {Unreadable, NoExif}
  \cup { Exif(GpsInfo(lat, latRef, lng, lngRef)) :
          lat \in Triples \cup {<<>>}, latRef \in {None, "N", "S", "W"},
          lng \in Triples \cup {<<>>}, lngRef \in {None, "E", "W", "S"} }

InitGps == InitStore /\ exif \in ExifInputs

\* one call of get_gps_location(file_path)
GetGpsLocation ==
  /\ ~coords.returned
  /\ coords' = Returned(GpsOf(exif))
  /\ UNCHANGED <<envVars, file, pipeVars, migVars, exif>>

SpecGps == InitGps /\ [][GetGpsLocation]_vars

----------------------------------------------------------------------------
(* Properties *)

CountIn(recs, id) == Cardinality({ i \in 1..Len(recs) : recs[i].msg_id = id })

IsPrefix(a, b) == Len(a) <= Len(b) /\ SubSeq(b, 1, Len(a)) = a

\* the pass has loaded the store and grouped the batch, and its memory is still there
Grouped == pc \in {"download", "classify", "save", "dump", "done", "crashed"} /\ ~(pc = "crashed" /\ log = <<>>)

\* the messages of the batch that pass the filter, in arrival order
Survivors == SelectSeq(batch, LAMBDA m : m.has_message /\ ToString(m.chat_id) = TELEGRAM_CHAT_ID /\ m.message_id \notin processed_ids)

\* C1: a pass over the same batch as the previous pass, both with every classifier
\* call succeeding, adds no record: it saves the store as it found it.
C1_SecondPassAddsNothing ==
  (pc = "done" /\ prevClean /\ AllLogged(log)) => file = fileAtLoad

\* C2: in a completed pass, every event whose classifier call returned a well-formed
\* meal has exactly one record in the saved store, appended by this pass, and every
\* event whose classifier call raised has none.
C2_ClassifierFailureIsolated ==
  pc = "done" =>
    \A i \in 1..Len(log) :
      /\ log[i].result = "meal" =>
           CountIn(file.recs, log[i].msg_id) = 1 /\ CountIn(fileAtLoad.recs, log[i].msg_id) = 0
      /\ log[i].result = "raise" => CountIn(file.recs, log[i].msg_id) = 0

\* a pass saved the record of an event that came after one whose classifier call raised
C2_Witness ==
  /\ pc = "done"
  /\ \E i, j \in 1..Len(log) : i < j /\ log[i].result = "raise" /\ log[j].result = "meal"
  /\ Len(file.recs) > Len(fileAtLoad.recs)

\* C3: a failing download or image open is caught: it never ends the pass.
C3_DownloadFailureCaught ==
  ~(pc = "crashed" /\ log # <<>> /\ log[Len(log)].result = "download")

\* C4: in a completed pass, an event reported as failed because the response was not
\* JSON, was JSON of the wrong shape or lacked `name` has no record in the saved store.
C4_NoRecordForFailedEvent ==
  pc = "done" =>
    \A i \in 1..Len(log) :
      (log[i].reported = "error" /\ log[i].result \in {"garbage", "array", "nameless"})
        => CountIn(file.recs, log[i].msg_id) = 0

\* C5: a pass interrupted during its save, or a migration interrupted during its
\* write-back, leaves the store file as the complete prior document or as a complete
\* new one, never cut off.
C5_AtomicSave ==
  /\ pc = "killed" => (file = fileAtLoad \/ file.kind = "valid")
  /\ mpc = "killed" => (file = mfileAtRead \/ file.kind = "valid")

\* C6: no two records of the store, on disk or in memory, have the same msg_id.
C6_UniqueMsgIds ==
  /\ \A i, j \in 1..Len(file.recs) : i # j => file.recs[i].msg_id # file.recs[j].msg_id
  /\ \A i, j \in 1..Len(db) : i # j => db[i].msg_id # db[j].msg_id

\* a later pass has added to a store that held a record, skipping a message of its batch
C6_Witness ==
  /\ pc = "done"
  /\ fileAtLoad.recs # <<>>
  /\ Len(file.recs) > Len(fileAtLoad.recs)
  /\ \E i \in 1..Len(batch) : batch[i].chat_id = SourceChat /\ batch[i].message_id \in processed_ids

\* C7: the events of a pass are exactly the group keys of the surviving messages, one
\* event per key, with the key's surviving messages as members in arrival order; an
\* event whose classifier call returned a meal has exactly one record, appended by
\* this pass, whose image_paths are the paths of the last variants of its
\* photo-bearing members, in arrival order.
C7_GroupingCorrect ==
  Grouped =>
    LET KeyOf(m) == IF m.media_group_id # None THEN m.media_group_id ELSE "single_" \o ToString(m.message_id)
        keys == { KeyOf(Survivors[i]) : i \in 1..Len(Survivors) }
        Members(k) == SelectSeq(Survivors, LAMBDA m : KeyOf(m) = k)
        WithPhoto(k) == SelectSeq(Members(k), LAMBDA m : m.photo # <<>>)
        Expected(k) == [n \in 1..Len(WithPhoto(k)) |->
                          "assets/images/" \o WithPhoto(k)[n].photo[Len(WithPhoto(k)[n].photo)] \o ".jpg"]
    IN /\ { groups[i].key : i \in 1..Len(groups) } = keys
       /\ Len(groups) = Cardinality(keys)
       /\ \A i \in 1..Len(groups) : groups[i].msgs = Members(groups[i].key)
       /\ \A i \in 1..Len(log) :
            log[i].result = "meal" =>
              /\ CountIn(db, log[i].msg_id) = 1
              /\ CountIn(fileAtLoad.recs, log[i].msg_id) = 0
              /\ \A j \in 1..Len(db) :
                   db[j].msg_id = log[i].msg_id => db[j].image_paths = Expected(log[i].key)

\* a pass saved the record of a media group of two photo messages
C7_Witness ==
  /\ pc = "done"
  /\ \E j \in 1..Len(file.recs) : Len(file.recs[j].image_paths) = 2
  /\ \E i \in 1..Len(groups) : Len(groups[i].msgs) = 2

\* C8: a surviving message without media group is the only member of its event, and
\* its key is the key of no other surviving message, grouped or not.
C8_SingletonsNeverMerge ==
  Grouped =>
    LET single == { i \in 1..Len(Survivors) : Survivors[i].media_group_id = None }
    IN /\ \A i \in single : \A j \in 1..Len(Survivors) :
            i # j => GroupKey(Survivors[i]) # GroupKey(Survivors[j])
       /\ \A i \in single :
            Cardinality({ g \in 1..Len(groups) : groups[g].msgs = <<Survivors[i]>> }) = 1
       /\ Len(groups) >= Cardinality(single)

\* an ungrouped message next to a media group whose id is its message_id
C8_Witness ==
  /\ Grouped
  /\ Len(groups) = 2
  /\ \E i, j \in 1..Len(Survivors) :
       /\ Survivors[i].media_group_id = None
       /\ Survivors[j].media_group_id = ToString(Survivors[i].message_id)

\* C9: a completed pass that found a readable (or no) store file leaves the records it
\* found as a prefix of the records it saves, and saves exactly them when no message
\* of the batch survived the filter.
C9_AppendOnly ==
  (pc = "done" /\ fileAtLoad.kind # "partial") =>
    /\ IsPrefix(fileAtLoad.recs, file.recs)
    /\ groups = <<>> => file.recs = fileAtLoad.recs

\* a pass added a record behind the ones it found
C9_Witness ==
  /\ pc = "done"
  /\ fileAtLoad.kind = "valid"
  /\ fileAtLoad.recs # <<>>
  /\ Len(file.recs) > Len(fileAtLoad.recs)

\* C10: a pass that finds the store file missing or cut off does not stop at the load;
\* it goes on with an empty dedup set and, until it appends, an empty record sequence.
C10_LoadResilient ==
  (pc \in {"download", "classify", "save", "dump", "done", "crashed"} /\ fileAtLoad.kind \in {"missing", "partial"}) =>
    /\ ~(pc = "crashed" /\ log = <<>>)
    /\ processed_ids = {}
    /\ Len(db) <= Len(log)

\* a pass enriches a message after finding the store file cut off
C10_Witness ==
  /\ pc = "classify"
  /\ fileAtLoad.kind = "partial"
  /\ db = <<>>

\* C11: a run of migrate() gives participants = [sender] to exactly the records that
\* lack the field, leaves every other record and every other field as it was, and
\* counts the records it changed; it writes the store only when that count is not
\* zero, and a run right after a completed run changes nothing, counts zero and does
\* not write.
C11_MigrationIdempotent ==
  /\ mpc \in {"write", "dump", "done", "noop"} =>
       LET old == mfileAtRead.recs
           lacking == { i \in 1..Len(old) : "participants" \notin DOMAIN old[i] }
       IN /\ Len(mdata) = Len(old)
          /\ \A i \in 1..Len(old) :
               IF i \in lacking
               THEN /\ DOMAIN mdata[i] = DOMAIN old[i] \cup {"participants"}
                    /\ mdata[i]["participants"] = <<old[i]["sender"]>>
                    /\ \A k \in DOMAIN old[i] : mdata[i][k] = old[i][k]
               ELSE mdata[i] = old[i]
          /\ updated = Cardinality(lacking)
          /\ (mpc = "noop") = (lacking = {})
  /\ mpc = "done" => file = ValidFile(mdata)
  /\ mpc = "noop" => file = mfileAtRead
  /\ (migClean /\ mpc # "idle") => (mpc = "noop" /\ updated = 0 /\ mdata = mfileAtRead.recs /\ file = mfileAtRead)

\* a second run finds the records the first one has migrated
C11_Witness ==
  /\ migClean
  /\ mpc = "noop"
  /\ \E i \in 1..Len(file.recs) : "participants" \in DOMAIN file.recs[i] /\ file.recs[i]["participants"] = <<file.recs[i]["sender"]>>

\* the members of the event with key k: the surviving messages of the batch with
\* that key, in arrival order
MembersOf(k) == SelectSeq(Survivors, LAMBDA m : (IF m.media_group_id # None THEN m.media_group_id ELSE "single_" \o ToString(m.message_id)) = k)

\* the strings of a sequence with one blank between neighbours
RECURSIVE SpaceJoined(_)
SpaceJoined(parts) ==
  IF Len(parts) = 1 THEN parts[1]
  ELSE SpaceJoined(SubSeq(parts, 1, Len(parts) - 1)) \o " " \o parts[Len(parts)]

\* the text combined_text must hold for the event with key k
ExpectedText(k) ==
  LET ms == MembersOf(k)
      value(m) == IF m.text \notin {None, ""} THEN m.text ELSE m.caption
      values == [i \in 1..Len(ms) |-> value(ms[i])]
      kept == SelectSeq(values, LAMBDA v : v \notin {None, ""})
  IN IF kept = <<>> THEN "Food photo" ELSE SpaceJoined(kept)

\* C12: combined_text of an event is the non-empty text-or-caption values of its
\* members, in arrival order, with one blank between them, and "Food photo" when
\* there is none; that text is what the classifier is handed.
C12_TextCombination ==
  /\ pc = "classify" => combined_text = ExpectedText(groups[gi].key)
  /\ Grouped => \A i \in 1..Len(log) :
       log[i].result # "download" => log[i].contents.text = ExpectedText(log[i].key)

\* three members, the second without text or caption: "m1 m3"; and an event of
\* photos alone: "Food photo"
C12_Witness ==
  /\ pc = "done"
  /\ \E i, j \in 1..Len(log) :
       /\ Len(groups[i].msgs) = 3
       /\ log[i].contents.text = TextNo(1) \o " " \o TextNo(3)
       /\ groups[i].msgs[2].text = None /\ groups[i].msgs[2].caption = None
       /\ log[i].result = "meal"

\* C13: when the file has a latitude and a longitude triple, get_gps_location
\* returns degrees + minutes/60 + seconds/3600 for each (counted here in
\* arc-seconds), lat negated exactly when the latitude reference is "S" and lng
\* negated exactly when the longitude reference is "W", positive when the reference
\* is absent or any other letter.
C13_GpsSign ==
  (coords.returned /\ exif.opens /\ exif.has_exif) =>
    LET g == exif.gps_info
        whole(t) == Len(t) = 3
        seconds(t) == t[1] * 3600 + t[2] * 60 + t[3]
        south == "GPSLatitudeRef" \in DOMAIN g /\ g["GPSLatitudeRef"] = "S"
        west == "GPSLongitudeRef" \in DOMAIN g /\ g["GPSLongitudeRef"] = "W"
    IN IF {"GPSLatitude", "GPSLongitude"} \subseteq DOMAIN g /\ whole(g["GPSLatitude"]) /\ whole(g["GPSLongitude"])
       THEN /\ coords.value # NoGps
            /\ coords.value.lat = (IF south THEN 0 - seconds(g["GPSLatitude"]) ELSE seconds(g["GPSLatitude"]))
            /\ coords.value.lng = (IF west THEN 0 - seconds(g["GPSLongitude"]) ELSE seconds(g["GPSLongitude"]))
       ELSE coords.value = NoGps

\* a southern latitude with a longitude that has no reference tag
C13_Witness ==
  /\ coords.returned
  /\ coords.value # NoGps
  /\ coords.value.lat < 0 /\ coords.value.lng > 0
  /\ "GPSLongitudeRef" \notin DOMAIN exif.gps_info

\* the message ids of the source chat in the batch
BatchIds == { batch[i].message_id : i \in { j \in 1..Len(batch) : batch[j].has_message /\ batch[j].chat_id = SourceChat } }

\* C14: an event whose classifier call failed in a pass (generate_content raised,
\* or what it returned is no JSON object) leaves no message id of its members in the
\* store; the next pass over a batch that still holds its messages forms it again
\* with the same representative, and a pass that runs to its save has handed it to
\* the classifier again and has recorded it if that call gave a meal.
C14_FailedEventRetried ==
  /\ pc = "done" => \A i \in 1..Len(log) : log[i].result \in {"raise", "garbage", "array"} =>
       \A k \in 1..Len(groups[i].msgs) : CountIn(file.recs, groups[i].msgs[k].message_id) = 0
  /\ \A f \in prevFailed : f.members \subseteq BatchIds =>
       /\ Grouped => \E i \in 1..Len(groups) : groups[i].key = f.key /\ groups[i].msgs[1].message_id = f.msg_id
       /\ pc = "done" => \E j \in 1..Len(log) :
            /\ log[j].key = f.key /\ log[j].msg_id = f.msg_id
            /\ log[j].result = "meal" => CountIn(file.recs, f.msg_id) = 1

\* the classifier call failed for a two-message event in the previous pass and gives
\* a meal in this one
C14_Witness ==
  /\ pc = "done"
  /\ \E f \in prevFailed :
       /\ f.members \subseteq BatchIds /\ Cardinality(f.members) = 2
       /\ CountIn(file.recs, f.msg_id) = 1 /\ CountIn(fileAtLoad.recs, f.msg_id) = 0
       /\ \E j \in 1..Len(log) : log[j].msg_id = f.msg_id /\ log[j].result = "meal"

\* the message ids the store held when the pass loaded it
StoredAtStart == { fileAtLoad.recs[i].msg_id : i \in 1..Len(fileAtLoad.recs) }

\* a message the pass must not work on: of another chat, or recorded already
Excluded(m) == m.has_message /\ (m.chat_id # SourceChat \/ m.message_id \in StoredAtStart)

\* C15: in any pass no message whose message_id was in the store when the pass
\* began, and no message of another chat, is a member of an event; none of its photo
\* variants is downloaded, and the text handed to the classifier for an event is made
\* of the texts of the other messages of that key alone.
C15_FilterBeforeWork ==
  Grouped =>
    LET admitted == SelectSeq(batch, LAMBDA m : m.has_message /\ ~Excluded(m))
        keyed(k) == SelectSeq(admitted, LAMBDA m : (IF m.media_group_id # None THEN m.media_group_id ELSE "single_" \o ToString(m.message_id)) = k)
        said(m) == IF m.text \notin {None, ""} THEN m.text ELSE m.caption
        texts(k) == SelectSeq([i \in 1..Len(keyed(k)) |-> said(keyed(k)[i])], LAMBDA v : v \notin {None, ""})
    IN /\ \A i \in 1..Len(groups) : \A k \in 1..Len(groups[i].msgs) :
            /\ ~Excluded(groups[i].msgs[k])
            /\ \E n \in 1..Len(batch) : batch[n] = groups[i].msgs[k]
       /\ \A n \in 1..Len(batch) : Excluded(batch[n]) =>
            \A v \in 1..Len(batch[n].photo) : \A i \in 1..Len(groups) : \A q \in 1..Len(groups[i].paths) :
              groups[i].paths[q] # "assets/images/" \o batch[n].photo[v] \o ".jpg"
       /\ \A i \in 1..Len(log) : log[i].result # "download" =>
            log[i].contents.text = (IF texts(log[i].key) = <<>> THEN "Food photo" ELSE SpaceJoined(texts(log[i].key)))

\* a recorded text message and a new one of the same media group are in the batch:
\* the event is made of the new one alone and the classifier gets its text alone
C15_Witness ==
  /\ pc = "done"
  /\ \E n \in 1..Len(batch) : \E i \in 1..Len(log) :
       /\ Excluded(batch[n]) /\ batch[n].chat_id = SourceChat /\ batch[n].text # None
       /\ batch[n].media_group_id = log[i].key
       /\ Len(groups[i].msgs) = 1
       /\ log[i].contents.text = groups[i].msgs[1].text
       /\ log[i].result = "meal"

\* the records the pass has appended so far, and the log entries they came from
Appended == SubSeq(db, Len(fileAtLoad.recs) + 1, Len(db))
Recording == SelectSeq(log, LAMBDA e : e.result \in {"meal", "nameless"})

\* tok is the first run of non-blank characters of name
IsFirstToken(tok, name) ==
  /\ tok # <<>>
  /\ \A i \in 1..Len(tok) : tok[i] # " "
  /\ \E a \in 0..Len(name) :
       /\ \A i \in 1..a : name[i] = " "
       /\ a + Len(tok) <= Len(name)
       /\ SubSeq(name, a + 1, a + Len(tok)) = tok
       /\ (a + Len(tok) = Len(name) \/ name[a + Len(tok) + 1] = " ")

\* C16: each record a pass appends has the msg_id and the timestamp of the first
\* message, in arrival order, among the surviving messages of its event, and as
\* sender the first blank-delimited token of that message's sender name ("Unknown
\* Hunter" when the message has no user).
C16_Representative ==
  Grouped =>
    /\ Len(Appended) = Len(Recording)
    /\ \A j \in 1..Len(Appended) :
         LET first == MembersOf(Recording[j].key)[1]
             name == IF first.from_user = <<>> THEN UnknownHunter ELSE first.from_user[1].first_name
         IN /\ Appended[j].msg_id = first.message_id
            /\ Appended[j].timestamp = IsoFormat(first.date)
            /\ IsFirstToken(Appended[j].sender, name)

\* the first message of the key is recorded already; the event is made of the two
\* later ones, and the record takes id and sender (Zed) from the first of these
C16_Witness ==
  /\ pc = "done"
  /\ fileAtLoad.recs # <<>>
  /\ Len(Appended) = 1
  /\ Len(groups[1].msgs) = 2
  /\ groups[1].msgs[1].from_user = SpacedUser /\ groups[1].msgs[2].from_user # SpacedUser
  /\ batch[1].media_group_id = groups[1].key
  /\ Appended[1].msg_id = 2 /\ Appended[1].sender = <<"Z", "e", "d">>

\* where the key k appears first among the surviving messages of the batch
FirstAt(k) ==
  LET KeyOf(m) == IF m.media_group_id # None THEN m.media_group_id ELSE "single_" \o ToString(m.message_id)
      at == { n \in 1..Len(Survivors) : KeyOf(Survivors[n]) = k }
  IN CHOOSE n \in at : \A o \in at : n <= o

\* C17: within a pass the events are handed to the classifier one after the other in
\* the order in which their keys first appear in the batch, and the records of the
\* events that did not fail are appended, and saved, in that same order after the
\* records the store held.
C17_ProcessingOrder ==
  Grouped =>
    /\ \A i, j \in 1..Len(groups) : i < j => FirstAt(groups[i].key) < FirstAt(groups[j].key)
    /\ Len(log) <= Len(groups)
    /\ \A i \in 1..Len(log) : log[i].key = groups[i].key
    /\ pc \in {"download", "classify"} => gi = Len(log) + 1
    /\ Len(Appended) = Len(Recording)
    /\ \A a \in 1..Len(Appended) : Appended[a].msg_id = Recording[a].msg_id
    /\ \A a, b \in 1..Len(Appended) : a < b =>
         \E i, j \in 1..Len(log) : /\ i < j
                                   /\ log[i].msg_id = Appended[a].msg_id
                                   /\ log[j].msg_id = Appended[b].msg_id
                                   /\ FirstAt(log[i].key) < FirstAt(log[j].key)
    /\ pc = "done" => file.recs = fileAtLoad.recs \o Appended

\* three events; the classifier call of the second fails and the records of the
\* first and the third are saved in that order
C17_Witness ==
  /\ pc = "done"
  /\ Len(log) = 3
  /\ groups[1].key = "1" /\ groups[2].msgs[1] = batch[2] /\ groups[3].msgs[1] = batch[3]
  /\ log[1].result = "meal" /\ log[2].result = "raise" /\ log[3].result = "meal"
  /\ Len(file.recs) = 2 /\ file.recs[1].msg_id = 1 /\ file.recs[2].msg_id = 3

\* the position in the EXIF block of the file at a path: 33 deg 52' 4" S,
\* 151 deg 12' 26" E for the geotagged photos, none for the others
PositionAt(path) ==
  IF path \in GeoTagged
  THEN [lat |-> 0 - (33 * 3600 + 52 * 60 + 4), lng |-> 151 * 3600 + 12 * 60 + 26]
  ELSE NoGps

CoverOf(rec) ==
  IF rec.image_paths # <<>>
  THEN rec.image_path = rec.image_paths[1] /\ rec.gps = PositionAt(rec.image_paths[1])
  ELSE rec.image_path = None /\ rec.gps = NoGps

\* C18: every record the pipeline appends has as image_path the first of its
\* image_paths and as gps the position read from that first file alone; a record
\* without image_paths has image_path = null and gps = null.
C18_CoverImage ==
  /\ \A i \in 1..Len(db) : CoverOf(db[i])
  /\ \A i \in 1..Len(file.recs) : CoverOf(file.recs[i])

\* a saved record of two photos, the second one geotagged and the first not: no gps
C18_Witness ==
  /\ pc = "done"
  /\ \E i \in 1..Len(file.recs) :
       /\ Len(file.recs[i].image_paths) = 2
       /\ file.recs[i].image_paths[1] \notin GeoTagged
       /\ file.recs[i].image_paths[2] \in GeoTagged
       /\ file.recs[i].image_path = file.recs[i].image_paths[1]
       /\ file.recs[i].gps = NoGps

\* C19: in every record a pass appends, sender, msg_id, timestamp, image_paths,
\* image_path and gps are the values the pipeline derived from the event, whatever
\* the classifier's JSON object holds under those names; the msg_id is the
\* representative's, never an id the store held already nor one of a message
\* outside the event.
C19_ProvenanceKept ==
  Grouped =>
    /\ Len(Appended) = Len(Recording)
    /\ \A j \in 1..Len(Appended) :
         LET rec == Appended[j]
             members == MembersOf(Recording[j].key)
             name == IF members[1].from_user = <<>> THEN UnknownHunter ELSE members[1].from_user[1].first_name
             shots == SelectSeq(members, LAMBDA m : m.photo # <<>>)
         IN /\ rec.msg_id = members[1].message_id
            /\ rec.msg_id \notin StoredAtStart
            /\ IsFirstToken(rec.sender, name)
            /\ rec.timestamp = IsoFormat(members[1].date)
            /\ rec.image_paths = [n \in 1..Len(shots) |-> "assets/images/" \o shots[n].photo[Len(shots[n].photo)] \o ".jpg"]
            /\ CoverOf(rec)

\* the response names msg_id 1, which the store holds, and a sender, paths and gps
\* of its own: the record of message 2 keeps the pipeline's values and the
\* response's name
C19_Witness ==
  /\ pc = "done"
  /\ StoredAtStart = {1}
  /\ \E j \in 1..Len(Appended) :
       /\ Appended[j].name = ClashObject.name
       /\ Appended[j].msg_id = 2
       /\ Appended[j].sender # ClashObject.sender
       /\ Appended[j].image_paths # <<>> /\ Appended[j].image_paths # ClashObject.image_paths
       /\ Appended[j].gps # ClashObject.gps

\* the record at place i of the store the pass overwrote carries participants
Migrated(i) == "participants" \in DOMAIN fileAtSave.recs[i]

\* C20 as claimed: a record for which the migration has written participants
\* carries participants in every store saved later, also when the migration's
\* read-modify-write falls between the load and the save of a pass (db is what the
\* pass has saved).
C20_KeptUnderInterleaving ==
  pc = "done" =>
    \A i \in 1..Len(fileAtSave.recs) : Migrated(i) =>
      \E j \in 1..Len(db) :
        /\ db[j].msg_id = fileAtSave.recs[i].msg_id
        /\ "participants" \in DOMAIN db[j]

\* C20: a record that carries participants keeps them, and all its other fields,
\* in the store a pass saves, provided no migration has written the store between
\* the load and the save of that pass.
C20_KeptWhenSerialized ==
  (pc = "done" /\ fileAtSave = fileAtLoad) =>
    \A i \in 1..Len(fileAtSave.recs) : Migrated(i) =>
      (i <= Len(db) /\ db[i] = fileAtSave.recs[i])

\* a pass that loads a migrated record, appends a new one and saves, while a second
\* migration is waiting to write
C20_Witness ==
  /\ pc = "done"
  /\ fileAtSave = fileAtLoad
  /\ \E i \in 1..Len(fileAtSave.recs) : Migrated(i)
  /\ Len(db) > Len(fileAtLoad.recs)
  /\ file = ValidFile(db)

====
